---- MODULE Spec2Model ----
(***************************************************************************)
(* Model of templates/python-flask/html/app.py: a Flask application object *)
(* with one route, "/", answered by index(), and the conditional entry     *)
(* point  app.run(host='0.0.0.0', port=int(os.environ.get('PORT', 8000))). *)
(*                                                                         *)
(* Strings are sequences of one-character strings.  A request path is the  *)
(* sequence of its non-empty segments: <<>> is "/", <<"about">> is         *)
(* "/about", <<"static", "app.css">> is "/static/app.css".                 *)
(***************************************************************************)
EXTENDS Integers, Sequences, FiniteSets, TLC

(* ---------------------------------------------------------------- bounds *)
MaxLen == 3          \* longest enumerated value of PORT
MaxRequests == 3     \* requests served in one run
MaxEnvChanges == 1   \* later changes of PORT in the deployment environment

(* ------------------------------------------------------ program constants *)
DefaultPort == 8000                     \* os.environ.get('PORT', 8000)
BindHost_loopback == "127.0.0.1"
BindHost == "0.0.0.0"                   \* app.run(host='0.0.0.0', ...)
MainName == "__main__"
Title == "Flask App Template"

(* ------------------------------------------------- the environment's sets *)
Space == " "
Chars == {"0", "9", "-", Space, "a"}
Digits == {"0", "1", "2", "3", "4", "5", "6", "7", "8", "9"}
DigitVal(c) ==
    CASE c = "0" -> 0 [] c = "1" -> 1 [] c = "2" -> 2 [] c = "3" -> 3
      [] c = "4" -> 4 [] c = "5" -> 5 [] c = "6" -> 6 [] c = "7" -> 7
      [] c = "8" -> 8 [] c = "9" -> 9

Str9999 == <<"9", "9", "9", "9">>
Str8000 == <<"8", "0", "0", "0">>
Str70000 == <<"7", "0", "0", "0", "0">>
StrPadded == <<Space, "8", "0", "8", "0", Space>>
StrPlus == <<"+", "9", "0">>
StrGrouped == <<"9", "_", "0">>
StrBadGroups == {<<"_", "9">>, <<"9", "_">>, <<"9", "_", "_", "0">>, <<"+", "-", "9">>}

\* the values PORT can hold: every short string, and some longer ones
PortStrings ==
    UNION {[1..n -> Chars] : n \in 0..MaxLen}
      \cup {Str9999, Str8000, Str70000, StrPadded, StrPlus, StrGrouped}
      \cup StrBadGroups

Unset == [set |-> FALSE, val |-> <<>>]
EnvValue(s) == [set |-> TRUE, val |-> s]
Environments == {Unset} \cup {EnvValue(s) : s \in PortStrings}
LaterEnvironments == {Unset, EnvValue(Str9999), EnvValue(<<"a">>), EnvValue(<<>>)}

ModuleNames == {MainName, "app"}         \* run as a script, or imported
MaxPort == 2^16 - 1
\* the port the server ends up on when app.run is given port 0: Flask 1.x
\* takes 0 for "not given" and uses its default 5000, later versions bind
\* port 0 and the OS hands out a free port
PortsForZero == {5000, 49152, 49153}
StaticFileNames == {"app.css"}
Methods == {"GET", "HEAD", "POST"}
Paths == {<<>>, <<"about">>, <<"static">>,
          <<"static", "app.css">>, <<"static", "missing.css">>}

(* ------------------------------------------------------------ int(string) *)
RECURSIVE LStrip(_)
LStrip(s) == IF s # <<>> /\ Head(s) = Space THEN LStrip(Tail(s)) ELSE s

RECURSIVE RStrip(_)
RStrip(s) ==
    IF s # <<>> /\ s[Len(s)] = Space THEN RStrip(SubSeq(s, 1, Len(s) - 1)) ELSE s

Strip(s) == RStrip(LStrip(s))

\* digits with single underscores between them, Python's decimal literal
DigitsOk(d) ==
    /\ d # <<>>
    /\ \A i \in 1..Len(d) : d[i] \in Digits \cup {"_"}
    /\ d[1] \in Digits
    /\ d[Len(d)] \in Digits
    /\ \A i \in 1..(Len(d) - 1) : ~(d[i] = "_" /\ d[i + 1] = "_")

RECURSIVE DigitsValue(_, _)
DigitsValue(d, acc) ==
    IF d = <<>> THEN acc
    ELSE IF Head(d) = "_" THEN DigitsValue(Tail(d), acc)
    ELSE DigitsValue(Tail(d), 10 * acc + DigitVal(Head(d)))

ValueError == [ok |-> FALSE, n |-> 0]
IntOk(n) == [ok |-> TRUE, n |-> n]

\* int(s) for a str s: surrounding whitespace is dropped, one sign is
\* allowed, the rest must be a decimal literal; anything else raises.
PyInt(s) ==
    LET t == Strip(s)
        signed == t # <<>> /\ Head(t) \in {"+", "-"}
        d == IF signed THEN Tail(t) ELSE t
    IN  IF ~DigitsOk(d) THEN ValueError
        ELSE IF signed /\ Head(t) = "-" THEN IntOk(0 - DigitsValue(d, 0))
        ELSE IntOk(DigitsValue(d, 0))

(* ------------------------------------------- os.environ.get('PORT', 8000) *)
RawStr(s) == [kind |-> "str", s |-> s, n |-> 0]
RawInt(n) == [kind |-> "int", s |-> <<>>, n |-> n]
NoRaw == [kind |-> "none", s |-> <<>>, n |-> 0]

EnvironGet_wrongKey(e, default) == RawInt(default)

EnvironGet_orDefault(e, default) ==
    IF e.set /\ e.val # <<>> THEN RawStr(e.val) ELSE RawInt(default)

\* the variable's value when it is in the environment, else the default
EnvironGet(e, default) ==
    IF e.set THEN RawStr(e.val) ELSE RawInt(default)

ResolvePort_fallback(r) ==
    IF r.kind = "int" THEN IntOk(r.n)
    ELSE IF PyInt(r.s).ok THEN PyInt(r.s) ELSE IntOk(DefaultPort)

\* int(...) of what os.environ.get returned: an int is kept, a str is parsed
ResolvePort(r) ==
    IF r.kind = "int" THEN IntOk(r.n) ELSE PyInt(r.s)

IsEntryPoint_always(nm) == TRUE

\* if __name__ == '__main__':
IsEntryPoint(nm) == nm = MainName

(* ------------------------------------------------------------- the handler *)
VARIABLES pc, name, env, envChanges, startEnv, envReads, raw, urlMap,
          staticFiles, runCalls, bindHost, bindPort, bindAttempts, sock,
          err, nServed, lastReq, lastResp, indexBodies

vars == <<pc, name, env, envChanges, startEnv, envReads, raw, urlMap,
          staticFiles, runCalls, bindHost, bindPort, bindAttempts, sock,
          err, nServed, lastReq, lastResp, indexBodies>>

IndexHtml ==
    <<"<!DOCTYPE html>", "<html lang=\"en\">", "<head>", "<title>", Title,
      "</title>", "<style>", "</style>", "</head>", "<body>", "<h1>", Title,
      "</h1>", "Your Flask application is running!", "</body>", "</html>">>

Contains(body, text) == \E i \in 1..Len(body) : body[i] = text

Response(status, body, endpoint) ==
    [status |-> status, body |-> body, endpoint |-> endpoint]

index_counting ==
    Response(200, IF nServed = 0 THEN IndexHtml ELSE IndexHtml \o <<"again">>, "index")

index_untitled == Response(200, <<"<!DOCTYPE html>", "<html>", "</html>">>, "index")

\* def index(): return '''...'''
index == Response(200, IndexHtml, "index")

NotFound == Response(404, <<"404 Not Found">>, "none")
MethodNotAllowed == Response(405, <<"405 Method Not Allowed">>, "none")

NoRequest == [method |-> "none", path |-> <<>>]
NoResponse == Response(0, <<>>, "none")

(* ----------------------------------------------------------- the URL map *)
\* A rule is the literal segments of its path, and whether a
\* <path:filename> converter follows them.
Rule(path, tail, endpoint, methods) ==
    [path |-> path, tail |-> tail, endpoint |-> endpoint, methods |-> methods]

\* @app.route('/') with the default methods (OPTIONS is answered by Flask)
IndexRule == Rule(<<>>, FALSE, "index", {"GET", "HEAD"})

\* Flask(__name__) has static_folder='static' and adds /static/<path:filename>
StaticRule == Rule(<<"static">>, TRUE, "static", {"GET", "HEAD"})

RegisteredRoutes_extra ==
    {IndexRule, Rule(<<"about">>, FALSE, "index", {"GET", "HEAD"})}

\* the routes this file registers on app
RegisteredRoutes == {IndexRule}

Matches(rule, path) ==
    IF rule.tail
    THEN /\ Len(path) > Len(rule.path)
         /\ SubSeq(path, 1, Len(rule.path)) = rule.path
    ELSE path = rule.path

FileName(rule, path) == SubSeq(path, Len(rule.path) + 1, Len(path))

StaticFile(fname) == Response(200, <<"file">> \o fname, "static")

\* the view function of an endpoint
View(rule, path) ==
    IF rule.endpoint = "index" THEN index
    ELSE IF Len(FileName(rule, path)) = 1 /\ FileName(rule, path)[1] \in staticFiles
         THEN StaticFile(FileName(rule, path))
         ELSE NotFound

\* a HEAD request gets the GET response without its body
ForMethod(method, resp) ==
    IF method = "HEAD" THEN [resp EXCEPT !.body = <<>>] ELSE resp

\* Flask's dispatch of one request over the URL map
Dispatch(method, path) ==
    LET hits == {r \in urlMap : Matches(r, path)}
        ok == {r \in hits : method \in r.methods}
    IN  IF hits = {} THEN NotFound
        ELSE IF ok = {} THEN MethodNotAllowed
        ELSE ForMethod(method, View(CHOOSE r \in ok : TRUE, path))

(* ------------------------------------------------------------------ Init *)
Init ==
    /\ pc = "start"
    /\ name \in ModuleNames
    /\ env \in Environments
    /\ staticFiles \in SUBSET StaticFileNames
    /\ envChanges = 0
    /\ startEnv = Unset
    /\ envReads = 0
    /\ raw = NoRaw
    /\ urlMap = {}
    /\ runCalls = 0
    /\ bindHost = ""
    /\ bindPort = 0
    /\ bindAttempts = 0
    /\ sock = {}
    /\ err = "none"
    /\ nServed = 0
    /\ lastReq = NoRequest
    /\ lastResp = NoResponse
    /\ indexBodies = <<>>

requestVars == <<nServed, lastReq, lastResp, indexBodies>>
startVars == <<startEnv, envReads, raw, runCalls, bindHost, bindPort,
               bindAttempts, sock, err>>

(* --------------------------------------------------------------- actions *)
\* lines 1-53: app = Flask(__name__) and @app.route('/') def index()
LoadModule ==
    /\ pc = "start"
    /\ urlMap' = {StaticRule} \cup RegisteredRoutes
    /\ pc' = "loaded"
    /\ UNCHANGED <<name, env, envChanges, staticFiles>>
    /\ UNCHANGED startVars
    /\ UNCHANGED requestVars

\* line 55 is false: the module was imported, nothing more runs
Import ==
    /\ pc = "loaded"
    /\ ~IsEntryPoint(name)
    /\ pc' = "imported"
    /\ UNCHANGED <<name, env, envChanges, staticFiles, urlMap>>
    /\ UNCHANGED startVars
    /\ UNCHANGED requestVars

\* the argument expressions of line 56, evaluated before app.run is called
ReadPort ==
    /\ pc = "loaded"
    /\ IsEntryPoint(name)
    /\ startEnv' = env
    /\ envReads' = envReads + 1
    /\ raw' = EnvironGet(env, DefaultPort)
    /\ UNCHANGED <<name, env, envChanges, staticFiles, urlMap>>
    /\ UNCHANGED requestVars

Resolved == ResolvePort(EnvironGet(env, DefaultPort))

\* app.run(host, port) up to the bind of the listening socket
CallRun ==
    /\ runCalls' = runCalls + 1
    /\ bindHost' = BindHost
    /\ bindPort' = Resolved.n
    /\ bindAttempts' = bindAttempts + 1

\* int() raises ValueError: app.run is never called
StartInvalidPort ==
    /\ ReadPort
    /\ ~Resolved.ok
    /\ err' = "ValueError"
    /\ pc' = "error"
    /\ UNCHANGED <<runCalls, bindHost, bindPort, bindAttempts, sock>>

\* bind() refuses a port outside 0..65535
StartOutOfRange ==
    /\ ReadPort
    /\ Resolved.ok
    /\ Resolved.n \notin 0..MaxPort
    /\ CallRun
    /\ err' = "OverflowError"
    /\ pc' = "error"
    /\ UNCHANGED sock

StartBindFail_retry ==
    /\ ReadPort
    /\ Resolved.ok
    /\ Resolved.n \in 0..(MaxPort - 1)
    /\ runCalls' = runCalls + 1
    /\ bindHost' = BindHost
    /\ bindPort' = Resolved.n + 1
    /\ bindAttempts' = bindAttempts + 2
    /\ err' = "OSError"
    /\ sock' = {[host |-> BindHost, port |-> Resolved.n + 1]}
    /\ pc' = "listening"

\* bind() fails (address in use, no permission): the error ends the process
StartBindFail ==
    /\ ReadPort
    /\ Resolved.ok
    /\ Resolved.n \in 0..MaxPort
    /\ CallRun
    /\ err' = "OSError"
    /\ pc' = "error"
    /\ UNCHANGED sock

\* bind() succeeds; port 0 asks the OS for a free port
StartListen ==
    /\ ReadPort
    /\ Resolved.ok
    /\ Resolved.n \in 0..MaxPort
    /\ CallRun
    /\ \E p \in (IF Resolved.n = 0 THEN PortsForZero ELSE {Resolved.n}) :
           sock' = {[host |-> BindHost, port |-> p]}
    /\ err' = "none"
    /\ pc' = "listening"

Record(method, path, resp) ==
    /\ nServed' = nServed + 1
    /\ lastReq' = [method |-> method, path |-> path]
    /\ lastResp' = resp
    /\ indexBodies' =
           IF method = "GET" /\ path = <<>>
           THEN Append(indexBodies, resp.body) ELSE indexBodies

Serve_rereads ==
    /\ pc = "listening"
    /\ nServed < MaxRequests
    /\ \E m \in Methods, p \in Paths : Record(m, p, Dispatch(m, p))
    /\ envReads' = envReads + 1
    /\ raw' = EnvironGet(env, DefaultPort)
    /\ sock' = IF Resolved.ok
               THEN {[host |-> BindHost, port |-> Resolved.n]} ELSE sock
    /\ UNCHANGED <<pc, name, env, envChanges, staticFiles, urlMap, startEnv,
                   runCalls, bindHost, bindPort, bindAttempts, err>>

\* one request, served by the development server or by the importing host
Serve ==
    /\ pc \in {"listening", "imported"}
    /\ nServed < MaxRequests
    /\ \E m \in Methods, p \in Paths : Record(m, p, Dispatch(m, p))
    /\ UNCHANGED <<pc, name, env, envChanges, staticFiles, urlMap>>
    /\ UNCHANGED startVars

\* the deployment changes PORT after the process has gone past line 56
EnvChange ==
    /\ pc \in {"imported", "listening", "error"}
    /\ envChanges < MaxEnvChanges
    /\ env' \in LaterEnvironments \ {env}
    /\ envChanges' = envChanges + 1
    /\ UNCHANGED <<pc, name, staticFiles, urlMap>>
    /\ UNCHANGED startVars
    /\ UNCHANGED requestVars

Next ==
    \/ LoadModule
    \/ Import
    \/ StartInvalidPort
    \/ StartOutOfRange
    \/ StartBindFail
    \/ StartListen
    \/ Serve
    \/ EnvChange

Spec == Init /\ [][Next]_vars

(* ---------------------------------------------------------------- claims *)
IsGetIndex(req) == req.method = "GET" /\ req.path = <<>>
Started == envReads > 0
UnderStatic(path) == Len(path) >= 2 /\ path[1] = "static"

\* C1: whenever a GET request for "/" has been answered, whatever was
\* served before it, the answer has status 200 and a body that contains the
\* title text "Flask App Template".
C1_IndexOk ==
    IsGetIndex(lastReq) =>
        /\ lastResp.status = 200
        /\ Contains(lastResp.body, "Flask App Template")

C1_Witness ==
    /\ pc = "listening"
    /\ nServed >= 2
    /\ IsGetIndex(lastReq)
    /\ lastResp.status = 200

\* C2 as stated: a listening server is on the integer value of PORT whenever
\* PORT parses as an integer (9999 for "9999"), and on 8000 when PORT is unset.
C2_Original ==
    \A s \in sock :
        /\ (startEnv.set /\ PyInt(startEnv.val).ok) => s.port = PyInt(startEnv.val).n
        /\ ~startEnv.set => s.port = 8000

\* C2 amended: a listening server is on 9999 when PORT was "9999", on the
\* integer value of PORT whenever that value is in 1..65535, on 8000 when
\* PORT was unset; for a value of 0 it is on a port the framework or the OS
\* picked, never on port 0.
C2_PortResolution ==
    \A s \in sock :
        /\ startEnv = EnvValue(Str9999) => s.port = 9999
        /\ (startEnv.set /\ PyInt(startEnv.val).ok /\ PyInt(startEnv.val).n # 0)
               => s.port = PyInt(startEnv.val).n /\ s.port \in 1..65535
        /\ (startEnv.set /\ PyInt(startEnv.val).ok /\ PyInt(startEnv.val).n = 0)
               => s.port # 0
        /\ ~startEnv.set => s.port = 8000

C2_Witness ==
    /\ pc = "listening"
    /\ startEnv = EnvValue(Str9999)
    /\ sock = {[host |-> "0.0.0.0", port |-> 9999]}

\* C3: all the bodies returned for GET "/" in a run are equal, whatever was
\* served in between, and a step that serves a request changes nothing but
\* the record of the requests served.
C3_SameBody ==
    /\ [](\A i, j \in 1..Len(indexBodies) : indexBodies[i] = indexBodies[j])
    /\ [][nServed' # nServed =>
            UNCHANGED <<pc, name, env, envChanges, startEnv, envReads, raw,
                        urlMap, staticFiles, runCalls, bindHost, bindPort,
                        bindAttempts, sock, err>>]_vars

C3_Witness ==
    /\ Len(indexBodies) = 2
    /\ nServed = 3
    /\ IsGetIndex(lastReq)
    /\ indexBodies[1] = indexBodies[2]

\* C4 as stated: once the module is loaded the routing table holds exactly
\* the route "/", and a request for another path is never answered by
\* index and gets the not-found response.
C4_Original ==
    /\ pc # "start" => urlMap = {IndexRule}
    /\ (lastReq.method # "none" /\ lastReq.path # <<>>) =>
           lastResp.endpoint # "index" /\ lastResp.status = 404

\* C4 amended: once the module is loaded the routing table holds the route
\* "/" and the static-file route /static/<path:filename> that the Flask
\* constructor adds; a request for a path other than "/" is never answered
\* by index, and gets the not-found response unless the path is under
\* /static/, where only a GET or HEAD for an existing file is answered 200.
C4_Routes ==
    /\ pc # "start" => urlMap = {IndexRule, StaticRule}
    /\ (lastReq.method # "none" /\ lastReq.path # <<>>) =>
           /\ lastResp.endpoint # "index"
           /\ ~UnderStatic(lastReq.path) => lastResp.status = 404
           /\ lastResp.status = 200 =>
                  /\ lastReq.method \in {"GET", "HEAD"}
                  /\ Len(lastReq.path) = 2
                  /\ lastReq.path[2] \in staticFiles

C4_Witness ==
    /\ lastReq = [method |-> "GET", path |-> <<"about">>]
    /\ lastResp.status = 404
    /\ lastResp.endpoint = "none"

\* C5: when PORT was set to a value int() rejects, startup ended with a
\* ValueError: app.run was not called, nothing listens (not on 8000 either)
\* and no request is served.
C5_InvalidPortFails ==
    (Started /\ startEnv.set /\ ~PyInt(startEnv.val).ok) =>
        /\ pc = "error"
        /\ err = "ValueError"
        /\ runCalls = 0
        /\ sock = {}
        /\ nServed = 0

C5_Witness ==
    /\ startEnv = EnvValue(<<"a">>)
    /\ pc = "error"
    /\ err = "ValueError"
    /\ envChanges = 1

\* C6 as stated: the listening port equals the value resolved from PORT at
\* startup, in every state.
C6_Original == \A s \in sock : s.port = bindPort

\* C6 amended: PORT is read at most once, a listening socket never changes
\* once it is bound, whatever is served and however PORT changes later, and
\* its port is the value resolved at startup unless that value is 0 (then
\* it is the port picked at startup).
C6_PortFixed ==
    /\ [](envReads <= 1)
    /\ [](\A s \in sock : bindPort # 0 => s.port = bindPort)
    /\ [][sock # {} => sock' = sock /\ envReads' = envReads]_vars

C6_Witness ==
    /\ pc = "listening"
    /\ envChanges = 1
    /\ env # startEnv
    /\ nServed >= 1
    /\ envReads = 1

C8_NoRetry ==
    err \in {"OSError", "OverflowError"} =>
        /\ pc = "error"
        /\ bindAttempts = 1
        /\ runCalls = 1
        /\ bindPort = ResolvePort(EnvironGet(startEnv, DefaultPort)).n
        /\ sock = {}
        /\ nServed = 0

C8_Witness ==
    /\ err = "OSError"
    /\ pc = "error"
    /\ bindPort = 9999
    /\ envChanges = 1

\* C9: when the module is loaded under another name than __main__, the
\* route "/" is registered, PORT is never read, app.run is never called and
\* this code has no listening socket.
C9_ImportOnly ==
    (pc # "start" /\ name # "__main__") =>
        /\ IndexRule \in urlMap
        /\ envReads = 0
        /\ raw = NoRaw
        /\ runCalls = 0
        /\ sock = {}
        /\ pc \in {"loaded", "imported"}

C9_Witness ==
    /\ pc = "imported"
    /\ name = "app"
    /\ env.set
    /\ IsGetIndex(lastReq)
    /\ lastResp.status = 200

\* C10: an empty PORT is an invalid value and startup fails with ValueError
\* without listening; the default is used only when PORT is absent.
C10_EmptyIsInvalid ==
    /\ (Started /\ startEnv = EnvValue(<<>>)) =>
           pc = "error" /\ err = "ValueError" /\ sock = {}
    /\ (Started /\ raw.kind = "int") => ~startEnv.set /\ raw.n = 8000

C10_Witness ==
    /\ Started
    /\ startEnv = EnvValue(<<>>)
    /\ raw = RawStr(<<>>)
    /\ pc = "error"
====
